---- MODULE Spec2Model ----
(***************************************************************************)
(* State-machine model of synapses/SET_layer.py (class SETLayer): an       *)
(* evolutionary sparse layer.  The layer's fields are the variables; the   *)
(* constructor, zero_connections, evolve_connections and forward are the   *)
(* operations.  Slots, input and output indices are 0-based as in the      *)
(* source; a tensor is a function over 0..len-1.                           *)
(*                                                                         *)
(* Real numbers: weights, bias entries and inputs are drawn from small     *)
(* integer sets.  sparsity and zeta are exact rationals [num, den]; the    *)
(* configurations used are ones where the source's float arithmetic gives  *)
(* the same truncated integers as exact arithmetic (dyadic values, or      *)
(* products below 10).                                                     *)
(***************************************************************************)
EXTENDS Integers, Sequences, FiniteSets, TLC

VARIABLES
  args,            \* the constructor's arguments
  indim, outdim,   \* self.indim, self.outdim
  zeta,            \* self.zeta
  sparsity,        \* self.sparsity
  n_params,        \* self.n_params
  marked_indices,  \* self.marked_indices (None or a set of slots)
  connections,     \* self.connections: slot -> <<input, output>> (<<>> is None)
  zmap,            \* self.zmap: output -> column -> slot or sentinel
  weight,          \* self.weight.data: slot -> value
  bias,            \* self.bias (None or output -> value)
  pc,              \* where the running call is
  op,              \* the public operation that is running or has just returned
  err,             \* the exception the call raised ("none" if none)
  raised_in,       \* the function that raised it
  depth,           \* nesting depth of generate_connections' retry recursion
  n_connections,   \* argument of the running generate_connections call
  indices,         \* argument of the running grow_connections call
  init,            \* argument of the running evolve_connections call
  fresh,           \* the running evolve computed its marked set itself
  old,             \* the layer's arrays when the running call started
  x,               \* forward's input (one batch row)
  out,             \* forward's result (one batch row)
  seen             \* what a forward call of a second thread has read so far

vars == <<args, indim, outdim, zeta, sparsity, n_params, marked_indices,
          connections, zmap, weight, bias, pc, op, err, raised_in, depth,
          n_connections, indices, init, fresh, old, x, out, seen>>

layer == <<indim, outdim, zeta, sparsity, n_params, marked_indices,
           connections, zmap, weight, bias>>

call == <<n_connections, indices, init, fresh, old, x, out, depth, seen>>

(***************************************************************************)
(* Bounds of the model                                                     *)
(***************************************************************************)
\* weights (and re-initialised values) range over -MaxWeight..MaxWeight
MaxWeight == 1
\* nested generate_connections calls the interpreter allows before it
\* raises RecursionError
RecursionLimit == 2

WeightVals == -MaxWeight..MaxWeight
BiasVals == {-1, 1}
InputVals == {0, 1}

(***************************************************************************)
(* Python values                                                           *)
(***************************************************************************)
None == <<>>
Some(v) == <<v>>
IsNone(o) == Len(o) = 0
The(o) == o[1]

Rat(n, d) == [num |-> n, den |-> d]

\* int(a / b) for b > 0: truncation toward zero
Trunc(a, b) == IF a >= 0 THEN a \div b ELSE -((-a) \div b)

Tensor(n, S) == [0..(n - 1) -> S]
Size(t) == Cardinality(DOMAIN t)

\* position of slot s in the ascending index tensor holding the set idx
Rank(idx, s) == Cardinality({t \in idx : t < s})

RECURSIVE SumOver(_, _)
SumOver(f, S) ==
  IF S = {} THEN 0
  ELSE LET e == CHOOSE e \in S : TRUE IN f[e] + SumOver(f, S \ {e})

Max(S) == CHOOSE m \in S : \A e \in S : e <= m

(***************************************************************************)
(* __init__: sparsity and n_params                                         *)
(***************************************************************************)
\* 1 - r
OneMinus(r) == Rat(r.den - r.num, r.den)

\* density = (epsilon * (indim + outdim)) / (indim * outdim), denominator > 0;
\* the caller has excluded indim * outdim = 0 (ZeroDivisionError)
Density(a) ==
  LET e == a.epsilon * (a.in_features + a.out_features)
      p == a.in_features * a.out_features
  IN IF p > 0 THEN Rat(e, p) ELSE Rat(-e, -p)

\* the division by indim * outdim raises when the product is zero
DensityRaises(a) ==
  IsNone(a.sparsity) /\ a.in_features * a.out_features = 0

\* self.sparsity: the given one, else 1 - density, replaced by .9 when > 1
DerivedSparsity(a) ==
  IF ~IsNone(a.sparsity) THEN The(a.sparsity)
  ELSE LET s == OneMinus(Density(a))
       IN IF s.num > s.den THEN Rat(9, 10) ELSE s

\* int(self.indim * self.outdim * (1 - self.sparsity))
NParams(a) ==
  LET d == OneMinus(DerivedSparsity(a))
  IN Trunc(a.in_features * a.out_features * d.num, d.den)

(***************************************************************************)
(* generate_connections                                                    *)
(***************************************************************************)
AllPairs == (0..(indim - 1)) \X (0..(outdim - 1))

\* (variant: the existing pairs are not collected)
ExistingNone(conns) == {}

\* t: the pairs self.connections holds (the empty set when it is None)
Existing(conns) == {conns[s] : s \in DOMAIN conns}

\* int(n_connections * 1.5)
Oversample(n) == Trunc(3 * n, 2)

\* torch.randint raises for an empty index range or a negative size
RandintRaises(n) == indim <= 0 \/ outdim <= 0 \/ Oversample(n) < 0

\* t_: the set of the int(n*1.5) drawn pairs
SampledSets(n) ==
  {T \in SUBSET AllPairs :
     /\ Cardinality(T) <= Oversample(n)
     /\ Oversample(n) > 0 => T # {}}

\* new_locs: the drawn pairs not in t
NewLocs(T, conns) == T \ Existing(conns)

\* the draws that leave no new pair, too few new pairs, enough new pairs
EmptyDraws(n, conns) ==
  {T \in SampledSets(n) : NewLocs(T, conns) = {}}
ShortDraws(n, conns) ==
  {T \in SampledSets(n) :
     NewLocs(T, conns) # {} /\ Cardinality(NewLocs(T, conns)) < n}
FullDraws(n, conns) ==
  {T \in SampledSets(n) :
     NewLocs(T, conns) # {} /\ Cardinality(NewLocs(T, conns)) >= n}

\* (variant: the drawn pairs are not deduplicated against each other)
PrefixesRepeat(new, n) == Tensor(n, new)

\* new_locs[:n_connections], for every order the set may be listed in
Prefixes(new, n) ==
  {f \in Tensor(n, new) : \A a, b \in DOMAIN f : a # b => f[a] # f[b]}

(***************************************************************************)
(* grow_connections                                                        *)
(***************************************************************************)
\* indices is None: self.connections = connections;
\* else self.connections[indices] = connections
Grow(conns, idx, new) ==
  IF IsNone(idx) THEN new
  ELSE [s \in DOMAIN conns |->
          IF s \in The(idx) THEN new[Rank(The(idx), s)] ELSE conns[s]]

(***************************************************************************)
(* generate_zmap                                                           *)
(***************************************************************************)
\* slots whose connection targets output o
FanIn(conns, o) == {s \in DOMAIN conns : conns[s][2] = o}

\* longest = max over outputs of the fan-in
Longest(conns) == Max({0} \cup {Cardinality(FanIn(conns, o)) : o \in 0..(outdim - 1)})

\* the k-th (0-based) smallest slot of S
Nth(S, k) == CHOOSE s \in S : Rank(S, s) = k

\* (variant: the table is padded with slot 0 instead of the sentinel)
GenerateZmapZeroPad(conns) ==
  [o \in 0..(outdim - 1) |->
     [k \in 0..(Longest(conns) - 1) |->
        IF k < Cardinality(FanIn(conns, o)) THEN Nth(FanIn(conns, o), k)
        ELSE 0]]

\* z_inds: row o holds the slots of output o in ascending order, then n_params
GenerateZmap(conns) ==
  [o \in 0..(outdim - 1) |->
     [k \in 0..(Longest(conns) - 1) |->
        IF k < Cardinality(FanIn(conns, o)) THEN Nth(FanIn(conns, o), k)
        ELSE n_params]]

(***************************************************************************)
(* mark_connections                                                        *)
(***************************************************************************)
\* (variant: a zero weight counts as positive)
PosOrZero(tens) == {s \in DOMAIN tens : tens[s] >= 0}

\* pos = tens > 0, neg = tens < 0
Pos(tens) == {s \in DOMAIN tens : tens[s] > 0}
Neg(tens) == {s \in DOMAIN tens : tens[s] < 0}

\* int(count * self.zeta)
ToKill(count) == Trunc(count * zeta.num, zeta.den)

NegK(tens) == ToKill(Cardinality(Neg(tens))) + Cardinality(Pos(tens))
PosK(tens) == ToKill(Cardinality(Pos(tens))) + Cardinality(Neg(tens))

\* torch.topk raises when k is out of range for the tensor
TopkRaises(tens, k) == k < 0 \/ k > Size(tens)

\* the index sets torch.topk may return: k slots, none of them beaten by a
\* slot left out (ties are broken either way)
TopK(tens, k, largest) ==
  {S \in SUBSET DOMAIN tens :
     /\ Cardinality(S) = k
     /\ \A s \in S : \A r \in (DOMAIN tens) \ S :
          IF largest THEN tens[s] >= tens[r] ELSE tens[s] <= tens[r]}

MarkRaises(tens) == TopkRaises(tens, NegK(tens)) \/ TopkRaises(tens, PosK(tens))

\* nonzero(neg * kill_neg + pos * kill_pos)
MarkConnections(tens) ==
  {(Neg(tens) \cap kn) \cup (Pos(tens) \cap kp) :
     kn \in TopK(tens, NegK(tens), TRUE), kp \in TopK(tens, PosK(tens), FALSE)}

(***************************************************************************)
(* kill_parameters and the weight update of evolve_connections             *)
(***************************************************************************)
\* (variant: the first value is written to every slot)
SetWeightsAll(w, idx, values) ==
  [s \in DOMAIN w |-> IF idx = {} THEN w[s] ELSE values[0]]

\* self.weight.data[indices] = values
SetWeights(w, idx, values) ==
  [s \in DOMAIN w |-> IF s \in idx THEN values[Rank(idx, s)] ELSE w[s]]

Zeros(idx) == [k \in 0..(Cardinality(idx) - 1) |-> 0]

\* (variant: init is ignored, the values are always redrawn)
NewValuesAlways(flag, idx) == Tensor(Cardinality(idx), WeightVals)

\* new_values: randn(len(indices)) * stdv if init, else zeros_like(indices)
NewValues(flag, idx) ==
  IF flag THEN Tensor(Cardinality(idx), WeightVals) ELSE {Zeros(idx)}

(***************************************************************************)
(* forward                                                                 *)
(***************************************************************************)
\* x[:, inds] raises when a connection's input index is beyond x's width
GatherRaises(row) == \E s \in DOMAIN connections : connections[s][1] >= Size(row)

\* (variant: the appended column holds ones)
ProductsOnes(row) ==
  [s \in 0..n_params |->
     IF s = n_params THEN 1 ELSE row[connections[s][1]] * weight[s]]

\* k = cat(x[:, inds] * weight, zeros): slot n_params is the null slot
Products(row) ==
  [s \in 0..n_params |->
     IF s = n_params THEN 0 ELSE row[connections[s][1]] * weight[s]]

\* zmat.sum(dim=2): the row sums of k gathered through zmap
RowSums(row) ==
  [o \in DOMAIN zmap |->
     SumOver([c \in DOMAIN zmap[o] |-> Products(row)[zmap[o][c]]], DOMAIN zmap[o])]

\* z + self.bias
AddBias(z) == [o \in DOMAIN z |-> z[o] + The(bias)[o]]

\* the same steps on values read earlier: x[:, inds] with inds read from conns
Gather(row, conns) == [s \in DOMAIN conns |-> row[conns[s][1]]]

\* cat(k * w, zeros)
Weighted(k, w) ==
  [s \in 0..Size(k) |-> IF s = Size(k) THEN 0 ELSE k[s] * w[s]]

\* k[:, zm].sum(dim=2)
GatherSums(k, zm) ==
  [o \in DOMAIN zm |->
     SumOver([c \in DOMAIN zm[o] |-> k[zm[o][c]]], DOMAIN zm[o])]

(***************************************************************************)
(* Configurations                                                          *)
(***************************************************************************)
Config(i, o, e, s, z, b) ==
  [in_features |-> i, out_features |-> o, epsilon |-> e, sparsity |-> s,
   zeta |-> z, bias |-> b]

\* 2 x 2 layers with 2 slots (two pairs free), with and without bias, and a
\* 1 x 3 layer with 2 slots (one pair free)
Sparse ==
  {Config(2, 2, 11, Some(Rat(1, 2)), Rat(1, 2), TRUE),
   Config(2, 2, 11, Some(Rat(1, 2)), Rat(1, 1), FALSE),
   Config(1, 3, 11, Some(Rat(1, 4)), Rat(1, 1), FALSE)}

\* the default zeta and a pruning fraction above 1; complete graphs
\* (sparsity 0) of two and of three slots; more slots than pairs (sparsity
\* below 0, and the default epsilon on a small layer)
Dense ==
  {Config(2, 2, 11, Some(Rat(1, 2)), Rat(3, 10), FALSE),
   Config(2, 2, 11, Some(Rat(1, 2)), Rat(3, 2), FALSE),
   Config(1, 2, 11, Some(Rat(0, 1)), Rat(1, 2), TRUE),
   Config(1, 3, 11, Some(Rat(0, 1)), Rat(1, 1), FALSE),
   Config(2, 2, 11, Some(Rat(-1, 4)), Rat(1, 2), TRUE),
   Config(2, 2, 11, None, Rat(1, 2), TRUE)}

\* no slot at all, or no index range
Degenerate ==
  {Config(2, 2, 11, Some(Rat(1, 1)), Rat(1, 2), TRUE),
   Config(2, 2, 11, Some(Rat(9, 10)), Rat(1, 2), TRUE),
   Config(0, 2, 11, Some(Rat(1, 2)), Rat(1, 2), TRUE),
   Config(0, 2, 11, None, Rat(1, 2), TRUE),
   Config(2, -1, 11, Some(Rat(1, 2)), Rat(1, 2), TRUE),
   Config(-1, -1, 11, None, Rat(1, 2), TRUE),
   Config(-2, -2, 11, Some(Rat(1, 2)), Rat(1, 2), TRUE)}

Configs == Sparse \cup Dense \cup Degenerate

\* a 1 x 5 layer with 4 slots (int(5 * 0.9)) and zeta 1, without bias
Wide == {Config(1, 5, 11, Some(Rat(1, 10)), Rat(1, 1), FALSE)}

(***************************************************************************)
(* Operations                                                              *)
(***************************************************************************)
\* the arrays of the layer, as a call finds them
Snapshot ==
  [weight |-> weight, connections |-> connections, zmap |-> zmap,
   bias |-> bias, n_params |-> n_params, marked_indices |-> marked_indices]

NoOld ==
  [weight |-> <<>>, connections |-> <<>>, zmap |-> <<>>,
   bias |-> None, n_params |-> 0, marked_indices |-> None]

\* no second forward call is running
NotSeen ==
  [at |-> "none", x |-> <<>>, k |-> <<>>, connections |-> <<>>,
   weight |-> <<>>, zmap |-> <<>>, out |-> <<>>, err |-> "none"]

NoCall ==
  /\ seen' = NotSeen
  /\ n_connections' = 0
  /\ indices' = None
  /\ init' = FALSE
  /\ fresh' = FALSE
  /\ old' = NoOld
  /\ x' = <<>>
  /\ out' = <<>>
  /\ depth' = 0

\* an exception leaves the running call: the constructor yields no layer,
\* any other operation returns to its caller with the layer as it is
Raise(o, e, f) ==
  /\ err' = e
  /\ raised_in' = f
  /\ pc' = IF o = "init" THEN "failed" ELSE "done"

InitWith(C) ==
  /\ args \in C
  /\ indim = 0 /\ outdim = 0
  /\ zeta = Rat(0, 1) /\ sparsity = Rat(0, 1)
  /\ n_params = 0
  /\ marked_indices = None
  /\ connections = <<>> /\ zmap = <<>> /\ weight = <<>>
  /\ bias = None
  /\ pc = "new" /\ op = "none" /\ err = "none" /\ raised_in = "none"
  /\ depth = 0 /\ n_connections = 0 /\ indices = None
  /\ init = FALSE /\ fresh = FALSE
  /\ old = NoOld
  /\ x = <<>> /\ out = <<>>
  /\ seen = NotSeen

Init == InitWith(Configs)

\* __init__ up to the call of grow_connections()
Construct ==
  /\ pc = "new"
  /\ op' = "init"
  /\ indim' = args.in_features
  /\ outdim' = args.out_features
  /\ zeta' = args.zeta
  /\ IF DensityRaises(args)
     THEN /\ Raise("init", "ZeroDivisionError", "__init__")
          /\ UNCHANGED <<sparsity, n_params, n_connections>>
     ELSE /\ sparsity' = DerivedSparsity(args)
          /\ n_params' = NParams(args)
          /\ n_connections' = NParams(args)
          /\ pc' = "grow"
          /\ UNCHANGED <<err, raised_in>>
  /\ UNCHANGED <<args, marked_indices, connections, zmap, weight, bias, depth,
                 indices, init, fresh, old, x, out, seen>>

\* generate_connections raises: torch.randint on a bad range or size, or
\* torch.cat on an empty list of new pairs
GenerateRaises ==
  /\ pc = "grow"
  /\ IF RandintRaises(n_connections) THEN TRUE
     ELSE EmptyDraws(n_connections, connections) # {}
  /\ Raise(op, "RuntimeError", "generate_connections")
  /\ UNCHANGED <<args, op, layer, call>>

\* too few new pairs: generate_connections calls itself again, until the
\* interpreter's recursion limit
GenerateRetry ==
  /\ pc = "grow"
  /\ ~RandintRaises(n_connections)
  /\ ShortDraws(n_connections, connections) # {}
  /\ IF depth + 1 < RecursionLimit
     THEN /\ depth' = depth + 1
          /\ UNCHANGED <<pc, err, raised_in>>
     ELSE /\ Raise(op, "RecursionError", "generate_connections")
          /\ UNCHANGED depth
  /\ UNCHANGED <<args, op, layer, n_connections, indices, init, fresh,
                 old, x, out, seen>>

\* enough new pairs: generate_connections returns the first n_connections
\* and grow_connections stores them
GenerateReturns ==
  /\ pc = "grow"
  /\ ~RandintRaises(n_connections)
  /\ \E T \in FullDraws(n_connections, connections) :
       \E new \in Prefixes(NewLocs(T, connections), n_connections) :
         connections' = Grow(connections, indices, new)
  /\ pc' = "zmap"
  /\ UNCHANGED <<args, op, err, raised_in, indim, outdim, zeta, sparsity,
                 n_params, marked_indices, zmap, weight, bias, call>>

\* the rest of __init__: generate_zmap(), the parameters, reset_parameters()
FinishInit ==
  /\ pc = "zmap" /\ op = "init"
  /\ zmap' = GenerateZmap(connections)
  /\ weight' \in Tensor(n_params, WeightVals)
  /\ bias' \in IF args.bias THEN {Some(b) : b \in Tensor(outdim, BiasVals)}
               ELSE {None}
  /\ pc' = "done"
  /\ UNCHANGED <<args, op, err, raised_in, indim, outdim, zeta, sparsity,
                 n_params, marked_indices, connections, call>>

\* the rest of evolve_connections: generate_zmap()
FinishEvolve ==
  /\ pc = "zmap" /\ op = "evolve"
  /\ zmap' = GenerateZmap(connections)
  /\ pc' = "done"
  /\ UNCHANGED <<args, op, err, raised_in, indim, outdim, zeta, sparsity,
                 n_params, marked_indices, connections, weight, bias, call>>

\* the call returns (or its exception reaches the caller)
Return ==
  /\ pc = "done"
  /\ pc' = "idle"
  /\ op' = "none" /\ err' = "none" /\ raised_in' = "none"
  /\ NoCall
  /\ UNCHANGED <<args, layer>>

\* zero_connections
ZeroConnections ==
  /\ pc = "idle"
  /\ op' = "zero"
  /\ old' = Snapshot
  /\ IF MarkRaises(weight)
     THEN /\ Raise("zero", "RuntimeError", "mark_connections")
          /\ UNCHANGED <<weight, marked_indices, indices>>
     ELSE /\ \E idx \in MarkConnections(weight) :
               /\ weight' = SetWeights(weight, idx, Zeros(idx))
               /\ marked_indices' = Some(idx)
               /\ indices' = Some(idx)
          /\ pc' = "done"
          /\ UNCHANGED <<err, raised_in>>
  /\ UNCHANGED <<args, indim, outdim, zeta, sparsity, n_params, connections,
                 zmap, bias, depth, n_connections, init, fresh, x, out, seen>>

\* with init false new_values is zeros_like(indices), an integer tensor: the
\* indexed assignment into the float weight casts it, or raises on a torch
\* build that wants equal dtypes
IntoFloatMayRaise(flag) == ~flag

\* the indices evolve_connections works on: a fresh marking if none is pending
EvolveRaises == IsNone(marked_indices) /\ MarkRaises(weight)

\* (variant: the marking is computed anew whether or not one is pending)
EvolveIndicesAnew == MarkConnections(weight)

\* indices: the pending marked set if there is one, else a fresh marking
EvolveIndices ==
  IF IsNone(marked_indices) THEN MarkConnections(weight) ELSE {The(marked_indices)}

\* evolve_connections(init) up to the call of grow_connections(indices)
EvolveConnections(flag) ==
  /\ pc = "idle"
  /\ op' = "evolve"
  /\ init' = flag
  /\ fresh' = IsNone(marked_indices)
  /\ old' = Snapshot
  /\ IF EvolveRaises
     THEN /\ Raise("evolve", "RuntimeError", "mark_connections")
          /\ UNCHANGED <<weight, indices, n_connections>>
     ELSE \/ /\ \E idx \in EvolveIndices :
                  /\ \E values \in NewValues(flag, idx) :
                       weight' = SetWeights(weight, idx, values)
                  /\ indices' = Some(idx)
                  /\ n_connections' = Cardinality(idx)
             /\ pc' = "grow"
             /\ UNCHANGED <<err, raised_in>>
          \/ /\ IntoFloatMayRaise(flag)
             /\ Raise("evolve", "RuntimeError", "evolve_connections")
             /\ UNCHANGED <<weight, indices, n_connections>>
  /\ UNCHANGED <<args, indim, outdim, zeta, sparsity, n_params, marked_indices,
                 connections, zmap, bias, depth, x, out, seen>>

\* forward(x) on one batch row
Forward(row) ==
  /\ pc = "idle"
  /\ op' = "forward"
  /\ x' = row
  /\ old' = Snapshot
  /\ pc' = "done"
  /\ IF GatherRaises(row)
     THEN /\ err' = "IndexError" /\ raised_in' = "forward"
          /\ UNCHANGED out
     ELSE IF IsNone(bias)
     THEN /\ err' = "TypeError" /\ raised_in' = "forward"
          /\ UNCHANGED out
     ELSE /\ out' = AddBias(RowSums(row))
          /\ UNCHANGED <<err, raised_in>>
  /\ UNCHANGED <<args, layer, depth, n_connections, indices, init, fresh, seen>>

\* the rows forward is called with: one feature less, indim, one more
Rows == UNION {Tensor(w, InputVals) : w \in {indim - 1, indim, indim + 1}}

\* the optimizer, between calls, changes one learnable parameter
OptimizerStep ==
  /\ pc = "idle"
  /\ \/ /\ \E s \in DOMAIN weight : \E v \in WeightVals \ {weight[s]} :
             weight' = [weight EXCEPT ![s] = v]
        /\ UNCHANGED bias
     \/ /\ ~IsNone(bias)
        /\ \E o \in DOMAIN The(bias) : \E v \in BiasVals \ {The(bias)[o]} :
             bias' = Some([The(bias) EXCEPT ![o] = v])
        /\ UNCHANGED weight
  /\ UNCHANGED <<args, pc, op, err, raised_in, indim, outdim, zeta, sparsity,
                 n_params, marked_indices, connections, zmap, call>>

Next ==
  \/ Construct
  \/ GenerateRaises
  \/ GenerateRetry
  \/ GenerateReturns
  \/ FinishInit
  \/ FinishEvolve
  \/ Return
  \/ ZeroConnections
  \/ \E flag \in BOOLEAN : EvolveConnections(flag)
  \/ \E row \in Rows : Forward(row)
  \/ OptimizerStep

Spec == Init /\ [][Next]_vars

(***************************************************************************)
(* forward in a second thread, while evolve_connections runs: the layer    *)
(* has no lock, so the statements of forward interleave with evolve's      *)
(***************************************************************************)
\* an evolve_connections call has written the weights and has not returned
Evolving == op = "evolve" /\ pc \in {"grow", "zmap", "done"}

\* lines 229-230: forward reads self.connections and gathers x
ForwardGathers(row) ==
  /\ Evolving
  /\ seen.at = "none"
  /\ seen' = IF GatherRaises(row)
             THEN [NotSeen EXCEPT !.at = "done", !.x = row,
                                  !.connections = connections,
                                  !.err = "IndexError"]
             ELSE [NotSeen EXCEPT !.at = "231", !.x = row,
                                  !.connections = connections,
                                  !.k = Gather(row, connections)]
  /\ UNCHANGED <<args, pc, op, err, raised_in, layer, depth, n_connections,
                 indices, init, fresh, old, x, out>>

\* lines 231-232: forward reads self.weight
ForwardMultiplies ==
  /\ Evolving
  /\ seen.at = "231"
  /\ seen' = [seen EXCEPT !.at = "233", !.weight = weight,
                          !.k = Weighted(seen.k, weight)]
  /\ UNCHANGED <<args, pc, op, err, raised_in, layer, depth, n_connections,
                 indices, init, fresh, old, x, out>>

\* lines 233-235: forward reads self.zmap and self.bias
ForwardSums ==
  /\ Evolving
  /\ seen.at = "233"
  /\ seen' = IF IsNone(bias)
             THEN [seen EXCEPT !.at = "done", !.zmap = zmap,
                               !.err = "TypeError"]
             ELSE [seen EXCEPT !.at = "done", !.zmap = zmap,
                               !.out = AddBias(GatherSums(seen.k, zmap))]
  /\ UNCHANGED <<args, pc, op, err, raised_in, layer, depth, n_connections,
                 indices, init, fresh, old, x, out>>

\* a 2 x 2 layer with 2 slots and a bias, all of whose non-zero weights a
\* fresh selection marks
Shared == {Config(2, 2, 11, Some(Rat(1, 2)), Rat(1, 1), TRUE)}

InitShared == InitWith(Shared)

NextShared ==
  \/ Construct
  \/ GenerateRaises
  \/ GenerateRetry
  \/ GenerateReturns
  \/ FinishInit
  \/ FinishEvolve
  \/ Return
  \/ \E flag \in BOOLEAN : EvolveConnections(flag)
  \/ \E row \in Rows : ForwardGathers(row)
  \/ ForwardMultiplies
  \/ ForwardSums

SpecShared == InitShared /\ [][NextShared]_vars

\* construction and evolve calls alone, on the wide layer
InitWide == InitWith(Wide)

NextWide ==
  \/ Construct
  \/ GenerateRaises
  \/ GenerateRetry
  \/ GenerateReturns
  \/ FinishInit
  \/ FinishEvolve
  \/ Return
  \/ \E flag \in BOOLEAN : EvolveConnections(flag)

SpecWide == InitWide /\ [][NextWide]_vars

(***************************************************************************)
(* Properties                                                              *)
(***************************************************************************)
\* a layer exists and no call is part-way through
Ready == pc \in {"idle", "done"}

\* an evolve_connections call has just returned normally
Evolved == pc = "done" /\ op = "evolve" /\ err = "none"

\* the slots the call that has just ended worked on
Marked == IF IsNone(indices) THEN {} ELSE The(indices)

Abs(n) == IF n < 0 THEN -n ELSE n

\* C1: whenever a layer exists and no call is part-way through, the
\* connection table has exactly n_params entries, no two slots hold the
\* same pair, and every pair is within [0, indim) x [0, outdim).
C1_ConnectionTable ==
  Ready =>
    /\ DOMAIN connections = 0..(n_params - 1)
    /\ Size(connections) = n_params
    /\ \A s, t \in DOMAIN connections : s # t => connections[s] # connections[t]
    /\ \A s \in DOMAIN connections :
         /\ connections[s][1] \in 0..(indim - 1)
         /\ connections[s][2] \in 0..(outdim - 1)

\* zero_connections, then evolve_connections(init=False), has completed
C1_Witness ==
  Evolved /\ ~fresh /\ ~init /\ connections # old.connections

\* the pairs not in use
FreePairs == AllPairs \ {connections[s] : s \in DOMAIN connections}

\* C2 (as claimed): a generate_connections call asked for more pairs than
\* are free, and so unable to return k pairs, ends with the explicit
\* generation-exhausted error, after a bounded number of retries.
C2_GenerationExhausted ==
  (pc \in {"done", "failed"} /\ indim > 0 /\ outdim > 0
     /\ n_connections > Cardinality(FreePairs))
    => err = "GenerationExhausted"

\* C3 (as claimed): when an evolve call completes, the pending marked set
\* is cleared.
C3_MarkedSetCleared == Evolved => IsNone(marked_indices)

\* C4: an evolve call (completed, or ended by an exception) leaves every
\* slot outside its marked set with the weight and the pair it had, and
\* leaves n_params and the bias as they were.
C4_EvolveFrame ==
  (pc = "done" /\ op = "evolve") =>
    /\ \A s \in (DOMAIN weight) \ Marked :
         weight[s] = old.weight[s] /\ connections[s] = old.connections[s]
    /\ DOMAIN weight = DOMAIN old.weight
    /\ n_params = old.n_params
    /\ bias = old.bias

\* a completed evolve that changed a marked slot's weight and left a slot out
C4_Witness ==
  /\ Evolved /\ init
  /\ \E s \in Marked : weight[s] # old.weight[s]
  /\ (DOMAIN weight) \ Marked # {}

\* C5: after a completed evolve, the pairs at the marked slots are pairwise
\* distinct and none of them was active before regrowth, at a marked or an
\* unmarked slot; so every marked slot holds a pair other than its old one.
C5_RegrownPairsAreNew ==
  Evolved =>
    /\ \A s, t \in Marked : s # t => connections[s] # connections[t]
    /\ \A s \in Marked : connections[s] \notin {old.connections[t] : t \in DOMAIN old.connections}
    /\ \A s \in Marked : connections[s] # old.connections[s]

\* a completed evolve that regrew two slots or more
C5_Witness == Evolved /\ Cardinality(Marked) >= 2

\* C6 (as claimed): after evolve(init=True) with no pending marked set, the
\* number of slots whose pair changed is within 1 of
\* floor(P * zeta) + floor(N * zeta), P and N counting the positive and the
\* negative weights before the call.
C6_ChangedCount ==
  (Evolved /\ init /\ fresh) =>
    LET changed == {s \in DOMAIN connections : connections[s] # old.connections[s]}
        P == Cardinality({s \in DOMAIN old.weight : old.weight[s] > 0})
        N == Cardinality({s \in DOMAIN old.weight : old.weight[s] < 0})
    IN Abs(Cardinality(changed)
             - ((P * zeta.num) \div zeta.den + (N * zeta.num) \div zeta.den)) <= 1

\* C7: whenever a layer exists and no call is part-way through, every slot
\* appears exactly once in the row of its output and in no other row, the
\* cells beyond a row's fan-in hold the sentinel n_params, the rows are as
\* wide as the largest fan-in, and n_params cells are not the sentinel.
C7_FanInMap ==
  Ready =>
    /\ DOMAIN zmap = 0..(outdim - 1)
    /\ \A s \in DOMAIN connections : \A o \in DOMAIN zmap :
         Cardinality({c \in DOMAIN zmap[o] : zmap[o][c] = s})
           = IF connections[s][2] = o THEN 1 ELSE 0
    /\ \A o \in DOMAIN zmap : \A c \in DOMAIN zmap[o] :
         c >= Cardinality({s \in DOMAIN connections : connections[s][2] = o})
           => zmap[o][c] = n_params
    /\ \A o \in DOMAIN zmap :
         /\ DOMAIN zmap[o] = 0..(Size(zmap[o]) - 1)
         /\ \A p \in DOMAIN zmap :
              Cardinality({s \in DOMAIN connections : connections[s][2] = p})
                <= Size(zmap[o])
         /\ \E p \in DOMAIN zmap :
              Cardinality({s \in DOMAIN connections : connections[s][2] = p})
                = Size(zmap[o])
    /\ SumOver([o \in DOMAIN zmap |->
                  Cardinality({c \in DOMAIN zmap[o] : zmap[o][c] # n_params})],
               DOMAIN zmap) = n_params

\* a completed evolve rebuilt the map into a different one that has padding
C7_Witness ==
  /\ Evolved /\ zmap # old.zmap
  /\ \E o \in DOMAIN zmap : \E c \in DOMAIN zmap[o] : zmap[o][c] = n_params

\* C8: after a completed evolve(init=False), every marked slot has weight 0
\* and a pair that was not active before, and there are n_params pairs.
C8_NoReinitRegrows ==
  (Evolved /\ ~init) =>
    /\ \A s \in Marked :
         /\ weight[s] = 0
         /\ connections[s] \notin {old.connections[t] : t \in DOMAIN old.connections}
    /\ Size(connections) = n_params

\* a completed evolve(init=False) on a fresh marking of non-zero weights
C8_Witness ==
  /\ Evolved /\ ~init /\ fresh
  /\ \E s \in Marked : old.weight[s] # 0

\* the constructor's arguments the claim calls invalid
BadConfig ==
  \/ args.in_features <= 0
  \/ args.out_features <= 0
  \/ ~DensityRaises(args) /\ NParams(args) < 1

\* C9 (as claimed): construction with indim <= 0, outdim <= 0 or a derived
\* n_params < 1 fails at once with a configuration error: it never goes on
\* into connection generation.
C9_ConfigError ==
  (BadConfig /\ pc # "new") =>
    pc = "failed" /\ err = "ConfigError" /\ raised_in = "__init__"

\* C10 (as claimed): forward fails for every input whose width differs from
\* indim (whichever exception reports it).
C10_ForwardRejectsWidth ==
  (pc = "done" /\ op = "forward" /\ Size(x) # indim) => err # "none"

\* what an output unit without a bias adds to its fan-in sum
BiasOf(o) == IF IsNone(bias) THEN 0 ELSE The(bias)[o]

\* C11 (as claimed): forward adds the bias only if the layer has one: on a
\* layer without bias forward succeeds and returns the plain fan-in sums, an
\* output without connection yielding zero; on a layer with bias an output
\* without connection yields its bias value.
C11_BiasOptional ==
  (pc = "done" /\ op = "forward" /\ Size(x) = indim) =>
    /\ err = "none"
    /\ DOMAIN out = 0..(outdim - 1)
    /\ \A o \in DOMAIN out : out[o] = RowSums(x)[o] + BiasOf(o)
    /\ \A o \in DOMAIN out : FanIn(connections, o) = {} => out[o] = BiasOf(o)

\* a call has just computed a marked set of its own (zero_connections, or
\* evolve_connections without a pending set)
FreshlyMarked ==
  /\ pc = "done" /\ ~IsNone(indices)
  /\ op = "zero" \/ (op = "evolve" /\ fresh)

\* C12 (as claimed): a freshly computed marked set holds exactly
\* floor(N * zeta) negative and floor(P * zeta) positive weights, and no
\* unmarked weight is strictly closer to zero than a marked weight of the
\* same sign.
C12_NearestPerSign ==
  FreshlyMarked =>
    LET w == old.weight
    IN /\ Marked \subseteq Neg(w) \cup Pos(w)
       /\ Cardinality(Marked \cap Neg(w)) = ToKill(Cardinality(Neg(w)))
       /\ Cardinality(Marked \cap Pos(w)) = ToKill(Cardinality(Pos(w)))
       /\ \A s \in Marked \cap Neg(w) : \A r \in Neg(w) \ Marked : w[r] <= w[s]
       /\ \A s \in Marked \cap Pos(w) : \A r \in Pos(w) \ Marked : w[r] >= w[s]

\* the sum the gather stands for: over the slots whose pair targets o, the
\* input at the slot's input index times the slot's weight
DirectSum(row, o) ==
  SumOver([s \in DOMAIN connections |-> row[connections[s][1]] * weight[s]],
          FanIn(connections, o))

\* C13: whenever a layer exists and no call is part-way through, the
\* sentinel-padded gather gives, for every input row and every output o, the
\* sum over the slots targeting o of input * weight; a completed forward
\* returns that sum plus bias[o].
C13_GatherIsDirectSum ==
  Ready =>
    /\ \A row \in Tensor(indim, InputVals) : \A o \in 0..(outdim - 1) :
         RowSums(row)[o] = DirectSum(row, o)
    /\ (op = "forward" /\ err = "none") =>
         \A o \in 0..(outdim - 1) : out[o] = DirectSum(x, o) + The(bias)[o]

\* a completed forward through a map that has padding, with an output that
\* differs from the bias
C13_Witness ==
  /\ pc = "done" /\ op = "forward" /\ err = "none"
  /\ \E o \in DOMAIN zmap : \E c \in DOMAIN zmap[o] : zmap[o][c] = n_params
  /\ \E o \in DOMAIN out : out[o] # The(bias)[o]

\* C14 (as claimed): a forward call that runs while an evolve call runs
\* never reads a marked slot's weight replaced with its pair not replaced,
\* or its pair replaced with its weight not the written one, or connections
\* that were updated together with the fan-in map built for the old ones.
C14_ForwardSeesWholeStates ==
  (seen.at = "done" /\ seen.err # "IndexError") =>
    /\ \A s \in Marked :
         seen.weight[s] # old.weight[s]
           => seen.connections[s] # old.connections[s]
    /\ \A s \in Marked :
         seen.connections[s] # old.connections[s]
           => seen.weight[s] = weight[s]
    /\ seen.connections # old.connections
         => seen.zmap = GenerateZmap(seen.connections)

\* C15 (as claimed): an evolve call that ends because connection generation
\* fails leaves no marked slot with a replaced weight and its old pair.
C15_NoHalfUpdate ==
  (pc = "done" /\ op = "evolve" /\ raised_in = "generate_connections") =>
    \A s \in Marked :
      weight[s] # old.weight[s] => connections[s] # old.connections[s]

\* the slots whose pair is not the one the call found
Regrown == {s \in DOMAIN connections : connections[s] # old.connections[s]}

\* C16: zero_connections sets the weights of the slots it selects to zero,
\* changes no pair and no cell of the fan-in map, and records the selected
\* slots as the pending marked set; an evolve call that finds a pending set
\* works on exactly that set, whatever the weights are by then, and when it
\* completes the slots with a new pair are exactly the recorded ones.
C16_ZeroThenEvolve ==
  /\ (pc = "done" /\ op = "zero" /\ err = "none") =>
       /\ \A s \in Marked : weight[s] = 0
       /\ connections = old.connections
       /\ zmap = old.zmap
       /\ marked_indices = Some(Marked)
  /\ (op = "evolve" /\ pc \in {"grow", "zmap", "done"} /\ ~fresh
        /\ ~IsNone(indices)) =>
       indices = old.marked_indices
  /\ (Evolved /\ ~fresh) => Regrown = The(old.marked_indices)

\* a completed evolve on a pending set that a fresh selection over the
\* weights of the moment (changed since zero_connections) would not give
C16_Witness ==
  /\ Evolved /\ ~fresh /\ Marked # {}
  /\ \E s \in Marked : old.weight[s] # 0
  /\ ~MarkRaises(old.weight) => Marked \notin MarkConnections(old.weight)

\* C17 (as claimed): the two top-k counts are clamped to [0, n_params]
\* before selection, so that the selection of zero_connections and of
\* evolve_connections never fails for a count out of range.
C17_CountsClamped ==
  (pc = "done" /\ op \in {"zero", "evolve"}) => raised_in # "mark_connections"

C19_EmptyMarkedSet ==
  (pc = "done" /\ op = "evolve" /\ ~IsNone(indices) /\ Marked = {}) =>
    /\ err = "none"
    /\ weight = old.weight
    /\ connections = old.connections
    /\ zmap = old.zmap


====
